---------------------------- MODULE Spec2Model ----------------------------
(***************************************************************************)
(* Model of bibtexparser/middlewares/latex_encoding.py:                    *)
(*   - _PyStringTransformerMiddleware.transform_entry / transform_string   *)
(*     (the walk over an Entry's fields and over a String block),          *)
(*   - LatexEncodingMiddleware.__init__ / LatexDecodingMiddleware.__init__ *)
(*     (argument check, defaults, rule table / decoder construction),      *)
(*   - LatexEncodingMiddleware._transform_python_value_string with the     *)
(*     rule table built from the flags (regex rules of lines 97, 105, 106).*)
(*                                                                         *)
(* Strings are sequences of one-character strings.                         *)
(***************************************************************************)
EXTENDS Integers, Sequences, FiniteSets, TLC

VARIABLES
    \* ---- walker (transform_entry / transform_string) ----
    W,          \* the workers of this run (one per block)
    tf,         \* self._transform_python_value_string, as a table Leaf -> Leaf \cup {FAIL}
    tf0,        \* the table as it was when the middleware was constructed
    inplace,    \* self.allow_inplace_modification
    heap,       \* object id -> block (Entry or String)
    inref,      \* worker -> id of the block the pipeline handed in
    workref,    \* worker -> id of the block passed to transform_entry/transform_string
    orig,       \* worker -> contents of the input block before the call
    pc,         \* worker -> position in the handler
    fi,         \* worker -> index of the field being processed (for field in entry.fields)
    calls,      \* worker -> the calls of the transform made so far
    log,        \* the diagnostics emitted through logging.info
    ret,        \* worker -> what the handler returned (an object id) or NoRef
    \* ---- constructors ----
    cargs,      \* the arguments of the constructor call
    cpc,        \* position in __init__
    cself,      \* the attributes of self set so far
    clocal,     \* the locals keep_math / enclose_urls / conversion_rules ... of __init__
    \* ---- encoder (unicode_to_latex with the flag-built rule table) ----
    e_rules,    \* the conversion rules of self._encoder
    e_s,        \* the input string
    e_pos,      \* p.pos: next position of the input to convert (1-based)
    e_latex,    \* p.latex: the output so far
    e_handled,  \* per input position: the rule that consumed it
    e_pc        \* position in unicode_to_latex

wvars == <<W, tf, tf0, inplace, heap, inref, workref, orig, pc, fi, calls, log, ret>>
cvars == <<cargs, cpc, cself, clocal>>
evars == <<e_rules, e_s, e_pos, e_latex, e_handled, e_pc>>
vars  == <<W, tf, tf0, inplace, heap, inref, workref, orig, pc, fi, calls, log, ret,
           cargs, cpc, cself, clocal,
           e_rules, e_s, e_pos, e_latex, e_handled, e_pc>>

-----------------------------------------------------------------------------
(* Bounds *)

\* An entry's size is its number of fields plus its number of name-part elements.
MaxSize == 3
\* The same for the blocks processed concurrently.
MaxParSize == 1
\* The longest input string of the encoder over the alphabet Sigma.
MaxLen == 7
\* The most pieces an input string with URLs is put together from.
MaxPieces == 3

-----------------------------------------------------------------------------
(* Data model: Entry, Field, NameParts, String *)

Leaf == {"a", "b"}
FAIL == "FAIL"
NoRef == 0

StrValue(s) == [t |-> "str", s |-> s]
OtherValue(v) == [t |-> "other", v |-> v]
NamePartsValue(f, l, v, j) == [t |-> "NameParts", first |-> f, last |-> l, von |-> v, jr |-> j]

ListsOfLen(n) == [1..n -> Leaf]

NamePartsOfSize(n) ==
    UNION { UNION { UNION {
        { NamePartsValue(f, l, v, j) :
            <<f, l, v, j>> \in ListsOfLen(a) \X ListsOfLen(b) \X ListsOfLen(c)
                               \X ListsOfLen(n - a - b - c) }
        : c \in 0..(n - a - b) } : b \in 0..(n - a) } : a \in 0..n }

\* the field values of size k: a string, an opaque value or an empty NameParts
\* have size 1, a NameParts with j elements has size 1 + j
ValuesOfSize(k) ==
    IF k = 1
    THEN {StrValue(s) : s \in Leaf} \cup {OtherValue(1970)} \cup NamePartsOfSize(0)
    ELSE NamePartsOfSize(k - 1)

RECURSIVE ValueSeqs(_)
ValueSeqs(n) ==
    IF n = 0 THEN {<<>>}
    ELSE UNION { { <<v>> \o rest : v \in ValuesOfSize(k), rest \in ValueSeqs(n - k) }
                 : k \in 1..n }

\* Field.key: the fields of an entry have distinct keys
KeyOf(i) == 100 + i

MkEntry(vals) ==
    [kind |-> "Entry",
     fields |-> [i \in 1..Len(vals) |-> [key |-> KeyOf(i), value |-> vals[i]]]]

EntriesUpTo(n) == { MkEntry(vals) : vals \in UNION { ValueSeqs(k) : k \in 0..n } }

StringBlocks ==
    { [kind |-> "String", key |-> 200, value |-> v] :
        v \in {StrValue(s) : s \in Leaf} \cup {OtherValue(1970)} }


-----------------------------------------------------------------------------
(* _PyStringTransformerMiddleware: the transform and the walk *)

\* self._transform_python_value_string(python_string): the result, or FAIL when
\* the call raises
Transform(s) == tf[s]

FirstFailSwallowed(list) == 0

\* [self._transform_python_value_string(x) for x in list]: the index of the
\* first element the transform raises on, 0 if there is none
FirstFail(list) ==
    IF \E k \in 1..Len(list) : Transform(list[k]) = FAIL
    THEN CHOOSE k \in 1..Len(list) :
            /\ Transform(list[k]) = FAIL
            /\ \A m \in 1..(k - 1) : Transform(list[m]) # FAIL
    ELSE 0

MapTransformReversed(list) ==
    [k \in 1..Len(list) |-> Transform(list[Len(list) + 1 - k])]

\* the list the comprehension builds when no call raises
MapTransform(list) == [k \in 1..Len(list) |-> Transform(list[k])]

\* the calls one comprehension makes: element by element, in order, up to and
\* including the first one that raises
CallsOfList(i, part, list) ==
    LET n == IF FirstFail(list) = 0 THEN Len(list) ELSE FirstFail(list)
    IN  [k \in 1..n |-> [field |-> i, part |-> part, idx |-> k, arg |-> list[k]]]

SetFieldValueCrossBlock(h, ref, i, v) ==
    [id \in DOMAIN h |->
        IF /\ h[id].kind = "Entry"
           /\ i <= Len(h[id].fields)
           /\ h[id].fields[i].value.t = "str"
        THEN [h[id] EXCEPT !.fields[i].value = v]
        ELSE h[id]]

\* field.value = ...          (line 33)
SetFieldValue(h, ref, i, v) == [h EXCEPT ![ref].fields[i].value = v]

\* field.value.first = [...]  (lines 35, 38, 41, 44)
SetNamePart(h, ref, i, part, list) == [h EXCEPT ![ref].fields[i].value[part] = list]

SetStringValueDropped(h, ref, v) == h

\* string.value = ...         (line 57)
SetStringValue(h, ref, v) == [h EXCEPT ![ref].value = v]

DiagnosticWrongKey(what, key, value) ==
    [what |-> what, key |-> KeyOf(1), valtype |-> value.t]

\* logging.info(f"... Cannot python-str transform field {field.key} with value
\* type {type(field.value)}")
Diagnostic(what, key, value) == [what |-> what, key |-> key, valtype |-> value.t]

\* the fixed order of the name-part lists in transform_entry
PartOrder == <<"first", "last", "von", "jr">>
PartOfPc(p) == CHOOSE k \in 1..4 : PartOrder[k] = p

PartSourceCopyPaste(part) == "first"

\* the list the comprehension assigned to field.value.<part> iterates over
\* (lines 36, 39, 42, 45)
PartSource(part) == part

\* the block the handler of worker w works on
Work(w) == heap[workref[w]]
CurField(w) == Work(w).fields[fi[w]]

\* where the for loop of transform_entry goes after field i
AfterField(w, i) ==
    IF i + 1 > Len(Work(w).fields)
    THEN /\ pc' = [pc EXCEPT ![w] = "return"]
         /\ fi' = fi
    ELSE /\ pc' = [pc EXCEPT ![w] = "field"]
         /\ fi' = [fi EXCEPT ![w] = i + 1]

\* the id of the copy made for worker w
CopyId(w) == 10 + w

DispatchAlwaysInPlace(w) ==
    /\ pc[w] = "start"
    /\ workref' = [workref EXCEPT ![w] = inref[w]]
    /\ heap' = heap
    /\ LET b == heap[inref[w]]
       IN  IF b.kind = "String"
           THEN pc' = [pc EXCEPT ![w] = "string"] /\ fi' = fi
           ELSE IF Len(b.fields) = 0
                THEN pc' = [pc EXCEPT ![w] = "return"] /\ fi' = fi
                ELSE pc' = [pc EXCEPT ![w] = "field"] /\ fi' = [fi EXCEPT ![w] = 1]
    /\ UNCHANGED <<W, tf, tf0, inplace, inref, orig, calls, log, ret, cvars, evars>>

\* The caller of transform_entry / transform_string (BlockMiddleware): hands the
\* block itself to the handler when in-place modification is allowed, a deep
\* copy of it otherwise.
Dispatch(w) ==
    /\ pc[w] = "start"
    /\ IF inplace
       THEN /\ workref' = [workref EXCEPT ![w] = inref[w]]
            /\ heap' = heap
       ELSE /\ workref' = [workref EXCEPT ![w] = CopyId(w)]
            /\ heap' = heap @@ (CopyId(w) :> heap[inref[w]])
    /\ LET b == heap[inref[w]]
       IN  IF b.kind = "String"
           THEN pc' = [pc EXCEPT ![w] = "string"] /\ fi' = fi
           ELSE IF Len(b.fields) = 0
                THEN pc' = [pc EXCEPT ![w] = "return"] /\ fi' = fi
                ELSE pc' = [pc EXCEPT ![w] = "field"] /\ fi' = [fi EXCEPT ![w] = 1]
    /\ UNCHANGED <<W, tf, tf0, inplace, inref, orig, calls, log, ret, cvars, evars>>

\* lines 32-33: isinstance(field.value, str)
FieldStr(w) ==
    /\ pc[w] = "field"
    /\ CurField(w).value.t = "str"
    /\ LET i == fi[w]
           old == CurField(w).value.s
       IN  /\ calls' = [calls EXCEPT ![w] =
                           @ \o <<[field |-> i, part |-> "value", idx |-> 1, arg |-> old]>>]
           /\ IF Transform(old) = FAIL
              THEN /\ pc' = [pc EXCEPT ![w] = "raised"]
                   /\ UNCHANGED <<heap, fi>>
              ELSE /\ heap' = SetFieldValue(heap, workref[w], i, StrValue(Transform(old)))
                   /\ AfterField(w, i)
    /\ UNCHANGED <<W, tf, tf0, inplace, inref, workref, orig, log, ret, cvars, evars>>

\* lines 34-46: isinstance(field.value, NameParts); one step per assignment,
\* in the order first, last, von, jr
FieldNamePart(w) ==
    /\ \/ pc[w] = "field" /\ CurField(w).value.t = "NameParts"
       \/ pc[w] \in {"last", "von", "jr"}
    /\ LET i == fi[w]
           k == IF pc[w] = "field" THEN 1 ELSE PartOfPc(pc[w])
           part == PartOrder[k]
           old == CurField(w).value[PartSource(part)]
       IN  /\ calls' = [calls EXCEPT ![w] = @ \o CallsOfList(i, PartSource(part), old)]
           /\ IF FirstFail(old) # 0
              THEN /\ pc' = [pc EXCEPT ![w] = "raised"]
                   /\ UNCHANGED <<heap, fi>>
              ELSE /\ heap' = SetNamePart(heap, workref[w], i, part, MapTransform(old))
                   /\ IF k < 4
                      THEN pc' = [pc EXCEPT ![w] = PartOrder[k + 1]] /\ fi' = fi
                      ELSE AfterField(w, i)
    /\ UNCHANGED <<W, tf, tf0, inplace, inref, workref, orig, log, ret, cvars, evars>>

\* lines 47-51: any other value type
FieldOther(w) ==
    /\ pc[w] = "field"
    /\ CurField(w).value.t \notin {"str", "NameParts"}
    /\ log' = Append(log, Diagnostic("field", CurField(w).key, CurField(w).value))
    /\ AfterField(w, fi[w])
    /\ UNCHANGED <<W, tf, tf0, inplace, heap, inref, workref, orig, calls, ret, cvars, evars>>

\* lines 56-57: isinstance(string.value, str)
StringStr(w) ==
    /\ pc[w] = "string"
    /\ Work(w).value.t = "str"
    /\ LET old == Work(w).value.s
       IN  /\ calls' = [calls EXCEPT ![w] =
                           @ \o <<[field |-> 0, part |-> "value", idx |-> 1, arg |-> old]>>]
           /\ IF Transform(old) = FAIL
              THEN /\ pc' = [pc EXCEPT ![w] = "raised"]
                   /\ heap' = heap
              ELSE /\ heap' = SetStringValue(heap, workref[w], StrValue(Transform(old)))
                   /\ pc' = [pc EXCEPT ![w] = "return"]
    /\ UNCHANGED <<W, tf, tf0, inplace, inref, workref, orig, fi, log, ret, cvars, evars>>

\* lines 58-62
StringOther(w) ==
    /\ pc[w] = "string"
    /\ Work(w).value.t # "str"
    /\ log' = Append(log, Diagnostic("string", Work(w).key, Work(w).value))
    /\ pc' = [pc EXCEPT ![w] = "return"]
    /\ UNCHANGED <<W, tf, tf0, inplace, heap, inref, workref, orig, fi, calls, ret, cvars, evars>>

\* line 52 (return entry) and line 63 (return string)
Return(w) ==
    /\ pc[w] = "return"
    /\ ret' = [ret EXCEPT ![w] = workref[w]]
    /\ pc' = [pc EXCEPT ![w] = "done"]
    /\ UNCHANGED <<W, tf, tf0, inplace, heap, inref, workref, orig, fi, calls, log, cvars, evars>>

WalkerIdle ==
    /\ W = {} /\ tf = <<>> /\ tf0 = <<>> /\ inplace = FALSE /\ heap = <<>>
    /\ inref = <<>> /\ workref = <<>> /\ orig = <<>> /\ pc = <<>> /\ fi = <<>>
    /\ calls = <<>> /\ log = <<>> /\ ret = <<>>

CtorIdle == cargs = <<>> /\ cpc = "idle" /\ cself = <<>> /\ clocal = <<>>

EncIdle ==
    /\ e_rules = <<>> /\ e_s = <<>> /\ e_pos = 0 /\ e_latex = <<>>
    /\ e_handled = <<>> /\ e_pc = "idle"

InitWalker(workers, blocks) ==
    /\ W = workers
    /\ tf \in [Leaf -> Leaf \cup {FAIL}]
    /\ tf0 = tf
    /\ inplace \in BOOLEAN
    /\ orig \in [workers -> blocks]
    /\ heap = orig
    /\ inref = [w \in workers |-> w]
    /\ workref = [w \in workers |-> NoRef]
    /\ pc = [w \in workers |-> "start"]
    /\ fi = [w \in workers |-> 0]
    /\ calls = [w \in workers |-> <<>>]
    /\ log = <<>>
    /\ ret = [w \in workers |-> NoRef]
    /\ CtorIdle
    /\ EncIdle

\* One block, one worker.
Init == InitWalker({1}, EntriesUpTo(MaxSize) \cup StringBlocks)

Next ==
    \/ \E w \in W : Dispatch(w)
    \/ \E w \in W : FieldStr(w)
    \/ \E w \in W : FieldNamePart(w)
    \/ \E w \in W : FieldOther(w)
    \/ \E w \in W : StringStr(w)
    \/ \E w \in W : StringOther(w)
    \/ \E w \in W : Return(w)

Spec == Init /\ [][Next]_vars

\* Two distinct blocks, one worker each, sharing the transformer; the workers'
\* steps interleave in any order.
InitPar == InitWalker({1, 2}, EntriesUpTo(MaxParSize) \cup StringBlocks)

SpecPar == InitPar /\ [][Next]_vars

-----------------------------------------------------------------------------
(* LatexEncodingMiddleware.__init__ and LatexDecodingMiddleware.__init__ *)

PyNone == "None"
PyTrue == "True"
PyFalse == "False"
OptBool == {PyNone, PyTrue, PyFalse}

\* a fully custom encoder / decoder object handed in by the caller
CustomObject == [kind |-> "custom"]
OptCustom == {[given |-> FALSE], [given |-> TRUE, obj |-> CustomObject]}

EncoderArgs ==
    [cls : {"LatexEncodingMiddleware"}, allow_inplace_modification : BOOLEAN,
     keep_math : OptBool, enclose_urls : OptBool, encoder : OptCustom]

DecoderArgs ==
    [cls : {"LatexDecodingMiddleware"}, allow_inplace_modification : BOOLEAN,
     keep_braced_groups : OptBool, keep_math_mode : OptBool, decoder : OptCustom]

\* the conversion rules of lines 93-111
MathRule == [rule_type |-> "RULE_REGEX", rule |-> <<"math">>]
UrlRule == [rule_type |-> "RULE_REGEX", rule |-> <<"http", "www">>]
DefaultsRule == [rule_type |-> "defaults", rule |-> <<>>]

ConflictTruthy(custom, flag1, flag2) ==
    custom.given /\ (flag1 = PyTrue \/ flag2 = PyTrue)

\* encoder is not None and (keep_math is not None or enclose_urls is not None)
Conflict(custom, flag1, flag2) ==
    custom.given /\ (flag1 # PyNone \/ flag2 # PyNone)

\* keep_math = keep_math if keep_math is not None else True
OrDefault(flag, dflt) == IF flag # PyNone THEN flag ELSE dflt

PrependRule(rules, r) == <<r>> \o rules

\* conversion_rules.append(...)
AppendRule(rules, r) == Append(rules, r)

\* lines 92-99: if keep_math is True: conversion_rules.append(<math rule>)
RulesAfterMath(rules, keep_math) ==
    IF keep_math = PyTrue THEN AppendRule(rules, MathRule) ELSE rules

\* lines 100-109: if enclose_urls is True: conversion_rules.append(<url rule>)
RulesAfterUrls(rules, enclose_urls) ==
    IF enclose_urls = PyTrue THEN AppendRule(rules, UrlRule) ELSE rules

\* lines 91-111: the rule table built from the (defaulted) flags
FlagBuiltRules(keep_math, enclose_urls) ==
    AppendRule(RulesAfterUrls(RulesAfterMath(<<>>, keep_math), enclose_urls), DefaultsRule)

\* setting an attribute of self / a local of __init__
SetAttr(obj, name, v) == (name :> v) @@ obj

IsEnc == cargs.cls = "LatexEncodingMiddleware"
IsDec == cargs.cls = "LatexDecodingMiddleware"

\* lines 76 and 134: super().__init__(allow_inplace_modification,
\* allow_parallel_execution=True)
CtorSuper ==
    /\ cpc = "start"
    /\ cself' = SetAttr(SetAttr(cself, "allow_inplace_modification",
                                cargs.allow_inplace_modification),
                        "allow_parallel_execution", TRUE)
    /\ cpc' = "check"
    /\ UNCHANGED <<cargs, clocal, wvars, evars>>

\* lines 78-82
EncCheck ==
    /\ cpc = "check" /\ IsEnc
    /\ cpc' = IF Conflict(cargs.encoder, cargs.keep_math, cargs.enclose_urls)
              THEN "error" ELSE "defaults"
    /\ UNCHANGED <<cargs, cself, clocal, wvars, evars>>

\* lines 86-87
EncDefaults ==
    /\ cpc = "defaults" /\ IsEnc
    /\ clocal' = SetAttr(SetAttr(clocal, "keep_math", OrDefault(cargs.keep_math, PyTrue)),
                         "enclose_urls", OrDefault(cargs.enclose_urls, PyTrue))
    /\ cpc' = IF cargs.encoder.given THEN "store" ELSE "rules"
    /\ UNCHANGED <<cargs, cself, wvars, evars>>

\* line 91
EncRulesNew ==
    /\ cpc = "rules" /\ IsEnc
    /\ clocal' = SetAttr(clocal, "conversion_rules", <<>>)
    /\ cpc' = "math"
    /\ UNCHANGED <<cargs, cself, wvars, evars>>

\* lines 92-99
EncRulesMath ==
    /\ cpc = "math" /\ IsEnc
    /\ clocal' = [clocal EXCEPT !.conversion_rules = RulesAfterMath(@, clocal.keep_math)]
    /\ cpc' = "urls"
    /\ UNCHANGED <<cargs, cself, wvars, evars>>

\* lines 100-109
EncRulesUrls ==
    /\ cpc = "urls" /\ IsEnc
    /\ clocal' = [clocal EXCEPT !.conversion_rules = RulesAfterUrls(@, clocal.enclose_urls)]
    /\ cpc' = "dflt"
    /\ UNCHANGED <<cargs, cself, wvars, evars>>

\* lines 111-112
EncRulesDefaults ==
    /\ cpc = "dflt" /\ IsEnc
    /\ LET rules == AppendRule(clocal.conversion_rules, DefaultsRule)
       IN  clocal' = SetAttr([clocal EXCEPT !.conversion_rules = rules], "encoder",
                             [kind |-> "UnicodeToLatexEncoder", conversion_rules |-> rules])
    /\ cpc' = "store"
    /\ UNCHANGED <<cargs, cself, wvars, evars>>

\* line 113
EncStore ==
    /\ cpc = "store" /\ IsEnc
    /\ cself' = SetAttr(cself, "_encoder",
                        IF cargs.encoder.given THEN cargs.encoder.obj ELSE clocal.encoder)
    /\ cpc' = "done"
    /\ UNCHANGED <<cargs, clocal, wvars, evars>>

\* lines 136-144
DecCheck ==
    /\ cpc = "check" /\ IsDec
    /\ cpc' = IF Conflict(cargs.decoder, cargs.keep_braced_groups, cargs.keep_math_mode)
              THEN "error" ELSE "defaults"
    /\ UNCHANGED <<cargs, cself, clocal, wvars, evars>>

\* lines 148-151
DecDefaults ==
    /\ cpc = "defaults" /\ IsDec
    /\ clocal' = SetAttr(SetAttr(clocal, "keep_braced_groups",
                                 OrDefault(cargs.keep_braced_groups, PyFalse)),
                         "keep_math_mode", OrDefault(cargs.keep_math_mode, PyTrue))
    /\ cpc' = IF cargs.decoder.given THEN "store" ELSE "context"
    /\ UNCHANGED <<cargs, cself, wvars, evars>>

\* lines 154-162: the default context with the url macro category prepended
DecContext ==
    /\ cpc = "context" /\ IsDec
    /\ clocal' = SetAttr(clocal, "lw_context_db",
                         <<[category |-> "bibtexparse-default-context",
                            macros |-> <<[macroname |-> "url", simplify_repl |-> "%s"]>>],
                           [category |-> "default", macros |-> <<>>]>>)
    /\ cpc' = "decoder"
    /\ UNCHANGED <<cargs, cself, wvars, evars>>

\* lines 164-171
DecBuild ==
    /\ cpc = "decoder" /\ IsDec
    /\ clocal' = SetAttr(clocal, "decoder",
                         [kind |-> "LatexNodes2Text",
                          latex_context |-> clocal.lw_context_db,
                          keep_braced_groups |-> clocal.keep_braced_groups,
                          math_mode |-> IF clocal.keep_math_mode = PyTrue
                                        THEN "verbatim" ELSE "text"])
    /\ cpc' = "store"
    /\ UNCHANGED <<cargs, cself, wvars, evars>>

\* line 173
DecStore ==
    /\ cpc = "store" /\ IsDec
    /\ cself' = SetAttr(cself, "_decoder",
                        IF cargs.decoder.given THEN cargs.decoder.obj ELSE clocal.decoder)
    /\ cpc' = "done"
    /\ UNCHANGED <<cargs, clocal, wvars, evars>>

\* lines 120-121 and 180-183: the first use of the constructed middleware; it
\* reads self._encoder / self._decoder
CtorUse ==
    /\ cpc = "done"
    /\ (IF IsEnc THEN "_encoder" ELSE "_decoder") \in DOMAIN cself
    /\ cpc' = "used"
    /\ UNCHANGED <<cargs, cself, clocal, wvars, evars>>

InitCtor ==
    /\ cargs \in EncoderArgs \cup DecoderArgs
    /\ cpc = "start"
    /\ cself = <<>>
    /\ clocal = <<>>
    /\ WalkerIdle
    /\ EncIdle

NextCtor ==
    \/ CtorSuper
    \/ EncCheck
    \/ EncDefaults
    \/ EncRulesNew
    \/ EncRulesMath
    \/ EncRulesUrls
    \/ EncRulesDefaults
    \/ EncStore
    \/ DecCheck
    \/ DecDefaults
    \/ DecContext
    \/ DecBuild
    \/ DecStore
    \/ CtorUse

SpecCtor == InitCtor /\ [][NextCtor]_vars

-----------------------------------------------------------------------------
(* LatexEncodingMiddleware._transform_python_value_string with the flag-built
   encoder: self._encoder.unicode_to_latex(python_string) scans the string from
   left to right; at each position the conversion rules are tried in order and
   the first one that matches there consumes its match; a character no rule
   matches is copied. *)

Sigma == {"$", "\\", "&", "a"}

StringsUpTo(n) == UNION { [1..k -> Sigma] : k \in 0..n }

Pieces ==
    { <<"w", "w", "w", ".", "a", ".", "a">>,
      <<"w", "w", "w", ".", "a">>,
      <<"h", "t", "t", "p", ":", "/", "/", "a", ".", "a">>,
      <<"h", "t", "t", "p", "s", ":", "/", "/", "a", ".", "a">>,
      <<"$", "a", "$">>,
      <<"&">>,
      <<" ">> }

RECURSIVE Concat(_)
Concat(ps) == IF ps = <<>> THEN <<>> ELSE Head(ps) \o Concat(Tail(ps))

UrlInputs == { Concat(ps) : ps \in UNION { [1..k -> Pieces] : k \in 1..MaxPieces } }

EncoderInputs == StringsUpTo(MaxLen) \cup UrlInputs

\* \S of the regexes
IsSpace(c) == c \in {" ", "\n", "\t", "\r"}

\* the literal lit stands in s at position p
HasAt(s, p, lit) ==
    /\ p + Len(lit) - 1 <= Len(s)
    /\ \A k \in 1..Len(lit) : s[p + k - 1] = lit[k]

\* \S* from position q: the last position of the longest run of non-space
\* characters starting at q (q - 1 when the run is empty)
RunEnd(s, q) ==
    IF \E k \in q..Len(s) : IsSpace(s[k])
    THEN (CHOOSE k \in q..Len(s) :
             IsSpace(s[k]) /\ \A m \in q..(k - 1) : ~IsSpace(s[m])) - 1
    ELSE Len(s)

\* \S*\.\S* from position q: the end of the match, 0 if there is none
UrlTail(s, q) ==
    LET r == RunEnd(s, q)
    IN  IF \E d \in q..r : s[d] = "." THEN r ELSE 0

\* line 97: re.compile(r"(?<!\\)(\$.*[^\\]\$)").match(s, p): the end of the
\* match, 0 if there is none.  .* is greedy: the match runs to the LAST dollar
\* of the string that is not preceded by a backslash.
MathEnd(s, p) ==
    IF /\ (p = 1 \/ s[p - 1] # "\\")
       /\ s[p] = "$"
       /\ \E e \in (p + 2)..Len(s) :
             s[e] = "$" /\ s[e - 1] # "\\" /\ \A m \in (p + 1)..(e - 2) : s[m] # "\n"
    THEN CHOOSE e \in (p + 2)..Len(s) :
            /\ s[e] = "$" /\ s[e - 1] # "\\" /\ \A m \in (p + 1)..(e - 2) : s[m] # "\n"
            /\ \A f \in (e + 1)..Len(s) :
                  ~(s[f] = "$" /\ s[f - 1] # "\\" /\ \A m \in (p + 1)..(f - 2) : s[m] # "\n")
    ELSE 0

\* line 105: re.compile(r"(https?://\S*\.\S*)").match(s, p)
HttpEnd(s, p) ==
    IF HasAt(s, p, <<"h", "t", "t", "p", "s", ":", "/", "/">>) /\ UrlTail(s, p + 8) # 0
    THEN UrlTail(s, p + 8)
    ELSE IF HasAt(s, p, <<"h", "t", "t", "p", ":", "/", "/">>)
         THEN UrlTail(s, p + 7)
         ELSE 0

\* line 106: re.compile(r"(www.\S*\.\S*)").match(s, p); the dot after www is
\* any character but a newline
WwwEnd(s, p) ==
    IF HasAt(s, p, <<"w", "w", "w">>) /\ p + 3 <= Len(s) /\ s[p + 3] # "\n"
    THEN UrlTail(s, p + 4)
    ELSE 0

\* the end of the match of the named pattern at p, 0 if there is none
MatchEnd(pat, s, p) ==
    CASE pat = "math" -> MathEnd(s, p)
      [] pat = "http" -> HttpEnd(s, p)
      [] pat = "www"  -> WwwEnd(s, p)

\* the replacement of a regex rule: r"\1" (line 97), r"\\url{\1}" (105, 106)
Replacement(pat, matched) ==
    IF pat = "math" THEN matched
    ELSE <<"\\", "u", "r", "l", "{">> \o matched \o <<"}">>

\* the "defaults" rule-set on the characters used here: the replacement, <<>>
\* for a character it does not cover
DefaultsRepl(c) ==
    CASE c \in {"$", "&", "#", "%", "_", "{", "}"} -> <<"\\", c>>
      [] c = "\\" -> <<"{", "\\", "t", "e", "x", "t", "b", "a", "c", "k", "s", "l",
                       "a", "s", "h", "}">>
      [] OTHER -> <<>>

\* the patterns of a rule table in the order they are tried
RECURSIVE PatternsOf(_)
PatternsOf(rules) ==
    IF rules = <<>> THEN <<>>
    ELSE (IF Head(rules).rule_type = "defaults" THEN <<"defaults">> ELSE Head(rules).rule)
         \o PatternsOf(Tail(rules))

Matches(pat, s, p) ==
    IF pat = "defaults" THEN DefaultsRepl(s[p]) # <<>> ELSE MatchEnd(pat, s, p) # 0

\* the first pattern of the table that matches at p, "none" if no rule applies
FirstMatch(rules, s, p) ==
    LET pats == PatternsOf(rules)
    IN  IF \E k \in 1..Len(pats) : Matches(pats[k], s, p)
        THEN pats[CHOOSE k \in 1..Len(pats) :
                     /\ Matches(pats[k], s, p)
                     /\ \A m \in 1..(k - 1) : ~Matches(pats[m], s, p)]
        ELSE "none"

Mark(handled, from, to, what) ==
    [k \in 1..Len(handled) |-> IF from <= k /\ k <= to THEN what ELSE handled[k]]

\* a regex rule consumes its match: the replacement is appended to p.latex and
\* p.pos moves behind the match
RegexEffect(pat) ==
    LET end == MatchEnd(pat, e_s, e_pos)
    IN  /\ e_latex' = e_latex \o Replacement(pat, SubSeq(e_s, e_pos, end))
        /\ e_handled' = Mark(e_handled, e_pos, end, pat)
        /\ e_pos' = end + 1

\* the math rule (line 97) is the first to match
EncMathStep ==
    /\ e_pc = "scan" /\ e_pos <= Len(e_s)
    /\ FirstMatch(e_rules, e_s, e_pos) = "math"
    /\ RegexEffect("math")
    /\ UNCHANGED <<e_rules, e_s, e_pc, wvars, cvars>>

\* the first pattern of the URL rule (line 105) is the first to match
EncHttpStep ==
    /\ e_pc = "scan" /\ e_pos <= Len(e_s)
    /\ FirstMatch(e_rules, e_s, e_pos) = "http"
    /\ RegexEffect("http")
    /\ UNCHANGED <<e_rules, e_s, e_pc, wvars, cvars>>

\* the second pattern of the URL rule (line 106) is the first to match
EncWwwStep ==
    /\ e_pc = "scan" /\ e_pos <= Len(e_s)
    /\ FirstMatch(e_rules, e_s, e_pos) = "www"
    /\ RegexEffect("www")
    /\ UNCHANGED <<e_rules, e_s, e_pc, wvars, cvars>>

\* the default rule-set escapes one character
EncDefaultsStep ==
    /\ e_pc = "scan" /\ e_pos <= Len(e_s)
    /\ FirstMatch(e_rules, e_s, e_pos) = "defaults"
    /\ e_latex' = e_latex \o DefaultsRepl(e_s[e_pos])
    /\ e_handled' = Mark(e_handled, e_pos, e_pos, "defaults")
    /\ e_pos' = e_pos + 1
    /\ UNCHANGED <<e_rules, e_s, e_pc, wvars, cvars>>

\* no rule applies: the character is copied
EncPassThrough ==
    /\ e_pc = "scan" /\ e_pos <= Len(e_s)
    /\ FirstMatch(e_rules, e_s, e_pos) = "none"
    /\ e_latex' = Append(e_latex, e_s[e_pos])
    /\ e_handled' = Mark(e_handled, e_pos, e_pos, "copied")
    /\ e_pos' = e_pos + 1
    /\ UNCHANGED <<e_rules, e_s, e_pc, wvars, cvars>>

\* the end of the string: unicode_to_latex returns p.latex
EncReturn ==
    /\ e_pc = "scan" /\ e_pos > Len(e_s)
    /\ e_pc' = "done"
    /\ UNCHANGED <<e_rules, e_s, e_pos, e_latex, e_handled, wvars, cvars>>

InitEnc ==
    /\ \E km \in {PyTrue, PyFalse}, eu \in {PyTrue, PyFalse} :
          e_rules = FlagBuiltRules(km, eu)
    /\ e_s \in EncoderInputs
    /\ e_pos = 1
    /\ e_latex = <<>>
    /\ e_handled = [k \in 1..Len(e_s) |-> "pending"]
    /\ e_pc = "scan"
    /\ WalkerIdle
    /\ CtorIdle

NextEnc ==
    \/ EncMathStep
    \/ EncHttpStep
    \/ EncWwwStep
    \/ EncDefaultsStep
    \/ EncPassThrough
    \/ EncReturn

SpecEnc == InitEnc /\ [][NextEnc]_vars

-----------------------------------------------------------------------------
(* Properties of the walk *)

\* new is old with every element replaced by its transform: same length, same order
ListIsTransformOf(new, old) ==
    /\ Len(new) = Len(old)
    /\ \A k \in 1..Len(old) : new[k] = tf[old[k]]

ValueIsTransformOf(new, old) ==
    /\ new.t = old.t
    /\ old.t = "str" => new.s = tf[old.s]
    /\ old.t = "NameParts" =>
          \A k \in 1..4 : ListIsTransformOf(new[PartOrder[k]], old[PartOrder[k]])
    /\ old.t \notin {"str", "NameParts"} => new = old

BlockIsTransformOf(new, old) ==
    /\ new.kind = old.kind
    /\ old.kind = "String" =>
          new.key = old.key /\ ValueIsTransformOf(new.value, old.value)
    /\ old.kind = "Entry" =>
          /\ Len(new.fields) = Len(old.fields)
          /\ \A i \in 1..Len(old.fields) :
                /\ new.fields[i].key = old.fields[i].key
                /\ ValueIsTransformOf(new.fields[i].value, old.fields[i].value)

\* new is old, transformed up to the failing call c and untouched from there on
IsPartialTransformOf(new, old, c) ==
    IF old.kind = "String" THEN new = old
    ELSE /\ Len(new.fields) = Len(old.fields)
         /\ \A i \in 1..Len(old.fields) :
               LET ov == old.fields[i].value
                   nv == new.fields[i].value
               IN  /\ i < c.field => ValueIsTransformOf(nv, ov)
                   /\ i > c.field => nv = ov
                   /\ (i = c.field /\ ov.t = "str") => nv = ov
                   /\ (i = c.field /\ ov.t = "NameParts") =>
                         \A k \in 1..4 :
                             IF k < PartOfPc(c.part)
                             THEN ListIsTransformOf(nv[PartOrder[k]], ov[PartOrder[k]])
                             ELSE nv[PartOrder[k]] = ov[PartOrder[k]]

\* the number of diagnostics that name the key
DiagnosticsFor(key) == Cardinality({j \in 1..Len(log) : log[j].key = key})

\* the leaf strings of a block, as (field, part, idx, content); field 0 is the
\* value of a String block
LeavesOfValue(i, v) ==
    IF v.t = "str" THEN {[field |-> i, part |-> "value", idx |-> 1, arg |-> v.s]}
    ELSE IF v.t = "NameParts"
    THEN UNION { { [field |-> i, part |-> PartOrder[p], idx |-> k,
                    arg |-> v[PartOrder[p]][k]] : k \in 1..Len(v[PartOrder[p]]) }
                 : p \in 1..4 }
    ELSE {}

LeavesOf(b) ==
    IF b.kind = "String" THEN LeavesOfValue(0, b.value)
    ELSE UNION { LeavesOfValue(i, b.fields[i].value) : i \in 1..Len(b.fields) }

Returned(w) == pc[w] = "done"
Result(w) == heap[ret[w]]

\* C1: after transform_entry every plain-string field holds transform(old value),
\* every NameParts field is still a NameParts whose four lists have the same
\* lengths with element i equal to transform(old element i); the value type of
\* every field is the same before and after the call.
C1_FieldsTransformed ==
    \A w \in W :
        (Returned(w) /\ orig[w].kind = "Entry") =>
            /\ Len(Result(w).fields) = Len(orig[w].fields)
            /\ \A i \in 1..Len(orig[w].fields) :
                  LET old == orig[w].fields[i].value
                      new == Result(w).fields[i].value
                  IN  /\ new.t = old.t
                      /\ old.t = "str" => new.s = tf[old.s]
                      /\ old.t = "NameParts" =>
                            \A k \in 1..4 :
                                LET o == old[PartOrder[k]]
                                    n == new[PartOrder[k]]
                                IN  /\ Len(n) = Len(o)
                                    /\ \A m \in 1..Len(o) : n[m] = tf[o[m]]

\* an entry returned with a string field that changed and a NameParts field with
\* a two-element list whose elements were transformed to different strings
C1_Witness ==
    /\ Returned(1) /\ orig[1].kind = "Entry"
    /\ \E i \in 1..Len(orig[1].fields) :
          /\ orig[1].fields[i].value.t = "NameParts"
          /\ \E k \in 1..4 :
                LET o == orig[1].fields[i].value[PartOrder[k]]
                    n == Result(1).fields[i].value[PartOrder[k]]
                IN  Len(o) = 2 /\ o[1] # o[2] /\ n[1] # n[2] /\ n # o
    /\ tf["a"] = "b" /\ tf["b"] = "a"

\* C2: a field whose value is neither a string nor a NameParts is left unchanged,
\* exactly one diagnostic naming its key is emitted for it, no error is raised
\* for it (a raise only ever comes from a failing call of the transform), the
\* entry is returned, and all other fields are transformed.
C2_TypeSkip ==
    \A w \in W :
        /\ pc[w] = "raised" =>
              /\ calls[w] # <<>>
              /\ tf[calls[w][Len(calls[w])].arg] = FAIL
        /\ (Returned(w) /\ orig[w].kind = "Entry") =>
              /\ ret[w] = workref[w]
              /\ \A i \in 1..Len(orig[w].fields) :
                    LET old == orig[w].fields[i]
                        new == Result(w).fields[i]
                    IN  IF old.value.t \in {"str", "NameParts"}
                        THEN ValueIsTransformOf(new.value, old.value)
                        ELSE /\ new = old
                             /\ DiagnosticsFor(old.key) = 1

\* a returned entry with an opaque field between two string fields, both changed
C2_Witness ==
    /\ Returned(1) /\ orig[1].kind = "Entry" /\ Len(orig[1].fields) = 3
    /\ orig[1].fields[2].value.t = "other"
    /\ orig[1].fields[1].value.t = "str" /\ orig[1].fields[3].value.t = "str"
    /\ Result(1).fields[1].value # orig[1].fields[1].value
    /\ Result(1).fields[3].value # orig[1].fields[3].value
    /\ Len(log) = 1

\* C5: transform_string replaces a plain-string value by transform(value); a
\* value of any other type is left unchanged with a diagnostic and no error;
\* in both cases the string block is returned with its key unchanged.
C5_StringBlock ==
    \A w \in W :
        orig[w].kind = "String" =>
            /\ orig[w].value.t # "str" => pc[w] # "raised"
            /\ Returned(w) =>
                  /\ ret[w] = workref[w]
                  /\ Result(w).kind = "String"
                  /\ Result(w).key = orig[w].key
                  /\ IF orig[w].value.t = "str"
                     THEN Result(w).value = StrValue(tf[orig[w].value.s])
                     ELSE /\ Result(w).value = orig[w].value
                          /\ DiagnosticsFor(orig[w].key) = 1

C5_Witness ==
    /\ Returned(1) /\ orig[1].kind = "String" /\ orig[1].value.t = "str"
    /\ Result(1).value # orig[1].value

\* C6: in a pass that completes without failure the transform is called exactly
\* once for every leaf string of the block, with that leaf's content, and for
\* nothing else.
C6_ExactlyOnce ==
    \A w \in W :
        Returned(w) =>
            /\ Len(calls[w]) = Cardinality(LeavesOf(orig[w]))
            /\ \A leaf \in LeavesOf(orig[w]) :
                  Cardinality({j \in 1..Len(calls[w]) : calls[w][j] = leaf}) = 1

\* a completed pass over an entry in which the same content occurs in a string
\* field and in a name-part list of another field
C6_Witness ==
    /\ Returned(1) /\ orig[1].kind = "Entry"
    /\ \E x, y \in LeavesOf(orig[1]) :
          /\ x.arg = y.arg
          /\ x.part = "value" /\ y.part = "jr"
    /\ Len(calls[1]) = 2

\* C9: a failure of the transform propagates uncaught (the handler stops and
\* returns nothing); fields before the failing one hold their transformed
\* values, inside the failing NameParts field the lists before the failing one
\* hold their transformed values, and the failing field or list and everything
\* after it hold their original values.
C9_PartialOnFailure ==
    \A w \in W :
        /\ (\E j \in 1..Len(calls[w]) : tf[calls[w][j].arg] = FAIL) =>
              /\ pc[w] = "raised"
              /\ tf[calls[w][Len(calls[w])].arg] = FAIL
              /\ \A j \in 1..(Len(calls[w]) - 1) : tf[calls[w][j].arg] # FAIL
        /\ pc[w] = "raised" =>
              /\ ret[w] = NoRef
              /\ IsPartialTransformOf(Work(w), orig[w], calls[w][Len(calls[w])])

\* the transform failed on the von list of a NameParts field after the first
\* list was replaced by a different one
C9_Witness ==
    /\ pc[1] = "raised" /\ orig[1].kind = "Entry"
    /\ LET c == calls[1][Len(calls[1])]
       IN  /\ c.part = "von"
           /\ Work(1).fields[c.field].value.first # orig[1].fields[c.field].value.first
           /\ Work(1).fields[c.field].value.von = orig[1].fields[c.field].value.von

\* C4: when in-place modification is not permitted the handler works on and
\* returns a copy and the input block stays as it was; when it is permitted the
\* input block itself is mutated and returned.
C4_InPlaceOrCopy ==
    \A w \in W :
        /\ ~inplace => heap[inref[w]] = orig[w]
        /\ Returned(w) =>
              IF inplace
              THEN /\ ret[w] = inref[w]
                   /\ BlockIsTransformOf(heap[inref[w]], orig[w])
              ELSE /\ ret[w] # inref[w]
                   /\ BlockIsTransformOf(heap[ret[w]], orig[w])

\* a copy was returned that differs from the untouched input
C4_Witness ==
    /\ Returned(1) /\ ~inplace
    /\ heap[ret[1]] # heap[inref[1]]
    /\ heap[inref[1]] = orig[1]

\* the input of an in-place run was changed
C4_WitnessInPlace ==
    /\ Returned(1) /\ inplace /\ heap[inref[1]] # orig[1]

\* C7: with one worker per block and the workers' steps interleaved in any
\* order, every block ends in the state sequential processing gives it (the
\* transformed block when its handler returns, the partially transformed block
\* when the transform failed), an input that was copied is never touched, and
\* the transformer is never modified.
C7_ParallelAsSequential ==
    /\ tf = tf0
    /\ \A w \in W :
          /\ ~inplace => heap[inref[w]] = orig[w]
          /\ Returned(w) =>
                /\ ret[w] = workref[w]
                /\ BlockIsTransformOf(Result(w), orig[w])
          /\ pc[w] = "raised" =>
                IsPartialTransformOf(Work(w), orig[w], calls[w][Len(calls[w])])

\* worker 1 ran to its return and changed its entry while worker 2 was in the
\* middle of a NameParts field of another entry
C7_Witness ==
    /\ W = {1, 2}
    /\ Returned(1) /\ orig[1].kind = "Entry" /\ Result(1) # orig[1]
    /\ pc[2] = "von" /\ orig[2] # orig[1]

\* both workers returned and both blocks changed
C7_WitnessBothDone ==
    /\ W = {1, 2}
    /\ Returned(1) /\ Returned(2)
    /\ Result(1) # orig[1] /\ Result(2) # orig[2]

-----------------------------------------------------------------------------
(* Properties of the constructors *)

\* a custom encoder / decoder was passed together with a supplied flag
BothGroupsSupplied ==
    IF IsEnc
    THEN cargs.encoder.given /\ (cargs.keep_math # PyNone \/ cargs.enclose_urls # PyNone)
    ELSE cargs.decoder.given
            /\ (cargs.keep_braced_groups # PyNone \/ cargs.keep_math_mode # PyNone)

TransformerAttr == IF IsEnc THEN "_encoder" ELSE "_decoder"

\* C3: a custom encoder with any supplied keep_math / enclose_urls, or a custom
\* decoder with any supplied keep_braced_groups / keep_math_mode, fails at
\* construction, before a transformer is built or stored and before any use;
\* every other combination of arguments constructs.
C3_ConfigConflict ==
    /\ BothGroupsSupplied =>
          /\ cpc \in {"start", "check", "error"}
          /\ TransformerAttr \notin DOMAIN cself
          /\ DOMAIN clocal = {}
    /\ cpc = "error" => BothGroupsSupplied
    /\ cpc \in {"done", "used"} => TransformerAttr \in DOMAIN cself
    /\ (~BothGroupsSupplied /\ cpc # "used") => ENABLED NextCtor

\* the decoder constructor failed for a custom decoder with keep_math_mode=False
C3_Witness ==
    /\ cpc = "error" /\ IsDec
    /\ cargs.keep_math_mode = PyFalse /\ cargs.keep_braced_groups = PyNone

\* C10: built from flags, the rule table is the math rule iff keep_math is true
\* (default true), then the URL rule (http pattern before www pattern) iff
\* enclose_urls is true (default true), then the default rule-set, always
\* present and last; a custom encoder is stored as given and no table is built.
C10_RuleTable ==
    (IsEnc /\ cpc \in {"done", "used"}) =>
        IF cargs.encoder.given
        THEN /\ cself["_encoder"] = cargs.encoder.obj
             /\ "conversion_rules" \notin DOMAIN clocal
        ELSE LET km == cargs.keep_math \in {PyNone, PyTrue}
                 eu == cargs.enclose_urls \in {PyNone, PyTrue}
             IN  /\ cself["_encoder"].conversion_rules =
                        (IF km THEN <<MathRule>> ELSE <<>>)
                        \o (IF eu THEN <<UrlRule>> ELSE <<>>)
                        \o <<DefaultsRule>>
                 /\ UrlRule.rule = <<"http", "www">>

\* an encoder built with keep_math left out and enclose_urls=True: three rules
C10_Witness ==
    /\ IsEnc /\ cpc = "done" /\ ~cargs.encoder.given
    /\ cargs.keep_math = PyNone /\ cargs.enclose_urls = PyTrue
    /\ Len(cself["_encoder"].conversion_rules) = 3

\* an encoder built with both flags False: the default rule-set alone
C10_WitnessDefaultsOnly ==
    /\ IsEnc /\ cpc = "done" /\ ~cargs.encoder.given
    /\ cargs.keep_math = PyFalse /\ cargs.enclose_urls = PyFalse
    /\ cself["_encoder"].conversion_rules = <<DefaultsRule>>

-----------------------------------------------------------------------------
(* Properties of the encoder *)

\* a dollar that is not preceded by an escape character
PlainDollar(s, i) == s[i] = "$" /\ (i = 1 \/ s[i - 1] # "\\")

\* the closing dollar of the math span opened at i: the first dollar behind a
\* non-empty content that does not end in an escape character; 0 if none
SpanClose(s, i) ==
    IF \E j \in (i + 2)..Len(s) : s[j] = "$" /\ s[j - 1] # "\\"
    THEN CHOOSE j \in (i + 2)..Len(s) :
            /\ s[j] = "$" /\ s[j - 1] # "\\"
            /\ \A m \in (i + 2)..(j - 1) : ~(s[m] = "$" /\ s[m - 1] # "\\")
    ELSE 0

\* the dollar-delimited math spans of s from position p on, read left to right
RECURSIVE MathSpans(_, _)
MathSpans(s, p) ==
    IF p > Len(s) THEN {}
    ELSE IF PlainDollar(s, p) /\ SpanClose(s, p) # 0
         THEN {<<p, SpanClose(s, p)>>} \cup MathSpans(s, SpanClose(s, p) + 1)
         ELSE MathSpans(s, p + 1)

\* part occurs in whole as a contiguous piece
OccursIn(part, whole) ==
    \E k \in 0..(Len(whole) - Len(part)) :
        \A m \in 1..Len(part) : whole[k + m] = part[m]

KeepMath == \E k \in 1..Len(e_rules) : e_rules[k] = MathRule

\* C8: with keepMath, every dollar-delimited math span of the input that is not
\* preceded by an escape character appears byte-identical in the output, and
\* every character outside such spans is handled by the URL rules or by the
\* default escaping (escaped or copied), never passed through by the math rule.
C8_MathPreserved ==
    (e_pc = "done" /\ KeepMath) =>
        /\ \A sp \in MathSpans(e_s, 1) : OccursIn(SubSeq(e_s, sp[1], sp[2]), e_latex)
        /\ \A k \in 1..Len(e_s) :
              (\A sp \in MathSpans(e_s, 1) : k < sp[1] \/ k > sp[2]) =>
                  e_handled[k] \in {"http", "www", "defaults", "copied"}

\* C8, the case of two math spans with an ampersand between them: the ampersand
\* is escaped in the output
C8_BetweenSpansEscaped ==
    (e_pc = "done" /\ KeepMath /\ e_s = <<"$", "a", "$", "&", "$", "a", "$">>) =>
        OccursIn(<<"\\", "&">>, e_latex)

\* what the encoder does with that input: the math rule matches from the first
\* dollar to the last one and the whole string comes out as it went in
C8_GreedyOutput ==
    (e_pc = "done" /\ KeepMath /\ e_s = <<"$", "a", "$", "&", "$", "a", "$">>) =>
        /\ e_latex = e_s
        /\ e_handled[4] = "math"

=============================================================================
